---- MODULE Spec2Model ----
(***************************************************************************)
(* Model of the OpenPGP object assertion library (openpgpAssertions.js)    *)
(* and of the private key decryption service (decryptPrivateKeyService.js) *)
(* of the passbolt browser extension fork.                                 *)
(*                                                                         *)
(* A driver calls one operation at a time with arguments drawn from small  *)
(* sets of JavaScript values and records what the operation did: its       *)
(* outcome and the collaborator calls it made.  Operations that await a    *)
(* promise or run a loop take several steps.                               *)
(***************************************************************************)
EXTENDS Integers, Sequences, FiniteSets, TLC

VARIABLES pc, svc, asr, sk, ra, ba, msg, fac, ska

vars == <<pc, svc, asr, sk, ra, ba, msg, fac, ska>>

(***************************************************************************)
(* Bounds of the model.                                                    *)
(***************************************************************************)
\* longest array handed to readAllKeysOrFail and to the batch assertions
MaxKeys == 3
\* longest algorithm tag tried in a session key string (the grammar allows 2)
MaxTagLen == 3
\* payload lengths tried are HexLen - PayloadSlack .. HexLen + PayloadSlack
PayloadSlack == 1

(***************************************************************************)
(* JavaScript values.  A value carries its typeof and, for a string, its   *)
(* content.                                                                *)
(***************************************************************************)
Str(s) == [t |-> "string", s |-> s]
Undefined == [t |-> "undefined", s |-> ""]
Null == [t |-> "object", s |-> "null"]
Number == [t |-> "number", s |-> "42"]
PlainObject == [t |-> "object", s |-> "{}"]
NonStrings == {Undefined, Null, Number, PlainObject}

\* the armored key fixtures of the tests, and strings that are not keys
KeyTexts == {"ada.public", "ada.private", "ada.private_decrypted"}
GarbageTexts == {"", "not a key"}
ArmoredInputs == {Str(s) : s \in KeyTexts \cup GarbageTexts} \cup NonStrings

Passphrases == {Str("ada@passbolt.com"), Str("wrong passphrase"), Str(""),
                Undefined, Number}

(***************************************************************************)
(* Errors, by class name and message.                                      *)
(***************************************************************************)
Err(name, message) == [name |-> name, message |-> message]
NoError == Err("", "")
KeyFormatError == Err("Error", "The key should be a valid openpgp armored key string.")
KeysFormatError == Err("Error", "The keys should be an array of valid openpgp armored key strings.")
KeyError == Err("Error", "The key should be a valid openpgp key.")
PublicKeyError == Err("Error", "The key should be a valid openpgp public key.")
PrivateKeyError == Err("Error", "The key should be a valid openpgp private key.")
NotDecryptedError == Err("Error", "The private key should be decrypted.")
NotEncryptedError == Err("Error", "The private key should be encrypted.")
PassphraseError == Err("InvalidMasterPasswordError", "This is not a valid passphrase")

(***************************************************************************)
(* Objects of the OpenPGP library.  A key object has a class, the material *)
(* it was read from, an encryption state and an identity (oid).  In the    *)
(* library PrivateKey extends PublicKey.                                   *)
(***************************************************************************)
Key(class, fixture, decrypted, oid) ==
  [class |-> class, fixture |-> fixture, decrypted |-> decrypted, oid |-> oid]
NoKey == Key("none", "", FALSE, 0)
NotAKey == Key("Object", "", FALSE, 1)
MessageObject == Key("Message", "", FALSE, 1)

\* openpgp.readKey: the key a fixture parses to
ParsedKey(text, oid) ==
  CASE text = "ada.public" -> Key("PublicKey", text, FALSE, oid)
    [] text = "ada.private" -> Key("PrivateKey", text, FALSE, oid)
    [] text = "ada.private_decrypted" -> Key("PrivateKey", text, TRUE, oid)
    [] OTHER -> NoKey

\* openpgp.readKey throws on anything that is not an armored key
Parses(text) == text \in KeyTexts

KeyObjects == {ParsedKey(s, 1) : s \in KeyTexts}
Objects == KeyObjects \cup {NotAKey, MessageObject}

\* key instanceof openpgp.PublicKey: true of a PrivateKey too
InstanceOfPublicKey(key) == key.class \in {"PublicKey", "PrivateKey"}
\* key instanceof openpgp.PrivateKey
InstanceOfPrivateKey(key) == key.class = "PrivateKey"
\* key.isPrivate()
isPrivate(key) == key.class = "PrivateKey"
\* key.isDecrypted()
isDecrypted(key) == key.decrypted
\* the passphrase an encrypted fixture is protected with
Unlocks(key, passphrase) ==
  /\ key.fixture = "ada.private"
  /\ passphrase = Str("ada@passbolt.com")

(***************************************************************************)
(* Single-object assertions: NoError when the assertion returns, the error *)
(* thrown otherwise.                                                       *)
(***************************************************************************)
assertKey(key) ==
  IF ~InstanceOfPublicKey(key) /\ ~InstanceOfPrivateKey(key)
    THEN KeyError
    ELSE NoError

assertPublicKeyNoRoleCheck(key) ==
  IF ~InstanceOfPublicKey(key) THEN PublicKeyError ELSE NoError

assertPublicKey(key) ==
  IF ~InstanceOfPublicKey(key) \/ (InstanceOfPublicKey(key) /\ isPrivate(key))
    THEN PublicKeyError
    ELSE NoError

assertPrivateKey(key) ==
  IF ~InstanceOfPrivateKey(key) \/ (InstanceOfPrivateKey(key) /\ ~isPrivate(key))
    THEN PrivateKeyError
    ELSE NoError

assertDecryptedPrivateKey(key) ==
  IF assertPrivateKey(key) # NoError THEN assertPrivateKey(key)
  ELSE IF ~isDecrypted(key) THEN NotDecryptedError
  ELSE NoError

assertEncryptedPrivateKey(key) ==
  IF assertPrivateKey(key) # NoError THEN assertPrivateKey(key)
  ELSE IF isDecrypted(key) THEN NotEncryptedError
  ELSE NoError

AssertionKinds == {"assertKey", "assertPublicKey", "assertPrivateKey",
                   "assertDecryptedPrivateKey", "assertEncryptedPrivateKey"}

\* the single-object assertion of a kind, applied
Assertion(kind, key) ==
  CASE kind = "assertKey" -> assertKey(key)
    [] kind = "assertPublicKey" -> assertPublicKey(key)
    [] kind = "assertPrivateKey" -> assertPrivateKey(key)
    [] kind = "assertDecryptedPrivateKey" -> assertDecryptedPrivateKey(key)
    [] kind = "assertEncryptedPrivateKey" -> assertEncryptedPrivateKey(key)

(***************************************************************************)
(* utils/assertions.assertPassphrase: the passphrase must be a non-empty   *)
(* string.                                                                 *)
(***************************************************************************)
assertPassphrase(passphrase) ==
  IF passphrase.t # "string" \/ passphrase.s = ""
    THEN PassphraseError
    ELSE NoError

(***************************************************************************)
(* Outcome of a call: how its promise settled, with what, and the          *)
(* collaborator calls made on the way (in order).                          *)
(***************************************************************************)
Outcome(st, key, err, calls) == [st |-> st, key |-> key, err |-> err, calls |-> calls]
Pending(calls) == Outcome("pending", NoKey, NoError, calls)
Fulfilled(key, calls) == Outcome("fulfilled", key, NoError, calls)
Rejected(err, calls) == Outcome("rejected", NoKey, err, calls)
NotCalled == Outcome("none", NoKey, NoError, <<>>)

(***************************************************************************)
(* DecryptPrivateKeyService.decrypt                                        *)
(***************************************************************************)
\* the upstream service: decrypts with openpgp.decryptKey, which returns a new
\* key object, and turns a failure into InvalidMasterPasswordError
decryptWithPrimitive(privateKey, passphrase, calls) ==
  IF assertEncryptedPrivateKey(privateKey) # NoError
    THEN Rejected(assertEncryptedPrivateKey(privateKey), calls)
  ELSE IF assertPassphrase(passphrase) # NoError
    THEN Rejected(assertPassphrase(passphrase), Append(calls, "assertPassphrase"))
  ELSE IF ~Unlocks(privateKey, passphrase)
    THEN Rejected(Err("InvalidMasterPasswordError", "This is not a valid passphrase"),
                  calls \o <<"assertPassphrase", "openpgp.decryptKey">>)
  ELSE Fulfilled([privateKey EXCEPT !.decrypted = TRUE, !.oid = @ + 1],
                 calls \o <<"assertPassphrase", "openpgp.decryptKey">>)

\* a service that forgets the passphrase check
decryptNoPassphraseCheck(privateKey, passphrase, calls) ==
  Fulfilled(privateKey, calls)

decrypt(privateKey, passphrase, calls) ==
  IF assertPassphrase(passphrase) # NoError
    THEN Rejected(assertPassphrase(passphrase), Append(calls, "assertPassphrase"))
    ELSE Fulfilled(privateKey, Append(calls, "assertPassphrase"))

(***************************************************************************)
(* readKeyOrFail is an async function: it runs up to its await when it is  *)
(* called, and resumes when the parser's promise settles.                  *)
(***************************************************************************)
\* the call: the typeof check, then the call of openpgp.readKey inside the try
readKeyOrFailCall(armoredKey, calls) ==
  IF armoredKey.t # "string"
    THEN Rejected(KeyFormatError, Append(calls, "readKeyOrFail"))
    ELSE Pending(calls \o <<"readKeyOrFail", "openpgp.readKey">>)

\* the resumption: the parsed key, or the normalised error of the catch
readKeyOrFailResume(armoredKey, oid, calls) ==
  IF Parses(armoredKey.s)
    THEN Fulfilled(ParsedKey(armoredKey.s, oid), calls)
    ELSE Rejected(KeyFormatError, calls)

(***************************************************************************)
(* DecryptPrivateKeyService.decryptArmoredKey                              *)
(***************************************************************************)
\* a service that validates the passphrase before it reads the key
decryptArmoredKeyPassphraseFirst(armoredPrivateKey, passphrase) ==
  IF assertPassphrase(passphrase) # NoError
    THEN Rejected(assertPassphrase(passphrase), <<"assertPassphrase">>)
    ELSE readKeyOrFailCall(armoredPrivateKey, <<>>)

\* up to the await of readKeyOrFail
decryptArmoredKeyCall(armoredPrivateKey, passphrase) ==
  readKeyOrFailCall(armoredPrivateKey, <<>>)

\* from the await on: a rejection propagates, a key goes to decrypt
decryptArmoredKeyResume(armoredPrivateKey, passphrase, calls) ==
  IF readKeyOrFailResume(armoredPrivateKey, 1, calls).st = "rejected"
    THEN readKeyOrFailResume(armoredPrivateKey, 1, calls)
    ELSE decrypt(readKeyOrFailResume(armoredPrivateKey, 1, calls).key, passphrase, calls)

(***************************************************************************)
(* Session key strings, as sequences of characters.                        *)
(***************************************************************************)
\* the length of the payload in the grammar of readSessionKeyOrFail
HexLen == 64

Digits == {"0", "1", "2", "3", "4", "5", "6", "7", "8", "9"}
HexChars == Digits \cup {"a", "b", "c", "d", "e", "f", "A", "B", "C", "D", "E", "F"}

Chars(cs) == [t |-> "string", chars |-> cs]
NonStringInputs == {[t |-> x, chars |-> <<>>] : x \in {"undefined", "number", "object"}}

\* /^\d{1,2}:[0-9A-F]{64}$/i.test(sessionKey), with a payload at least as long
\* as the grammar asks, nothing after it being required
SessionKeyRegexUnanchored(cs) ==
  \E k \in 1..2 :
    /\ Len(cs) >= k + 1 + HexLen
    /\ \A i \in 1..k : cs[i] \in Digits
    /\ cs[k + 1] = ":"
    /\ \A i \in (k + 2)..(k + 1 + HexLen) : cs[i] \in HexChars

\* /^\d{1,2}:[0-9A-F]{64}$/i.test(sessionKey)
SessionKeyRegexTest(cs) ==
  \E k \in 1..2 :
    /\ Len(cs) = k + 1 + HexLen
    /\ \A i \in 1..k : cs[i] \in Digits
    /\ cs[k + 1] = ":"
    /\ \A i \in (k + 2)..Len(cs) : cs[i] \in HexChars

\* sessionKey.split(":") of a string the grammar accepts: the part before the
\* colon and the part after it
SplitTag(cs) == SubSeq(cs, 1, (CHOOSE i \in 1..Len(cs) : cs[i] = ":") - 1)
SplitPayload(cs) == SubSeq(cs, (CHOOSE i \in 1..Len(cs) : cs[i] = ":") + 1, Len(cs))

\* openpgp.enums.symmetric, by value: the property names of the by-value array
\* are the decimal numerals of the values, so "09" names nothing
SymmetricByValue ==
  [tag \in {<<"0">>, <<"1">>, <<"2">>, <<"3">>, <<"4">>, <<"7">>, <<"8">>, <<"9">>,
            <<"1", "0">>, <<"1", "1">>, <<"1", "2">>, <<"1", "3">>} |->
     CASE tag = <<"0">> -> "plaintext"
       [] tag = <<"1">> -> "idea"
       [] tag = <<"2">> -> "tripledes"
       [] tag = <<"3">> -> "cast5"
       [] tag = <<"4">> -> "blowfish"
       [] tag = <<"7">> -> "aes128"
       [] tag = <<"8">> -> "aes192"
       [] tag = <<"9">> -> "aes256"
       [] tag = <<"1", "0">> -> "twofish"
       [] tag = <<"1", "1">> -> "camellia128"
       [] tag = <<"1", "2">> -> "camellia192"
       [] tag = <<"1", "3">> -> "camellia256"]

\* openpgp.enums.read(openpgp.enums.symmetric, tag) returns
enumsReadKnows(tag) == tag \in DOMAIN SymmetricByValue

HexValue(c) ==
  CASE c = "0" -> 0 [] c = "1" -> 1 [] c = "2" -> 2 [] c = "3" -> 3 [] c = "4" -> 4
    [] c = "5" -> 5 [] c = "6" -> 6 [] c = "7" -> 7 [] c = "8" -> 8 [] c = "9" -> 9
    [] c \in {"a", "A"} -> 10 [] c \in {"b", "B"} -> 11 [] c \in {"c", "C"} -> 12
    [] c \in {"d", "D"} -> 13 [] c \in {"e", "E"} -> 14 [] c \in {"f", "F"} -> 15

\* Uint8ArrayConvert.fromHex: one byte for every two hexadecimal characters
fromHex(cs) ==
  [i \in 1..(Len(cs) \div 2) |-> 16 * HexValue(cs[2 * i - 1]) + HexValue(cs[2 * i])]

\* utils/assertions.assertNonEmptyString
assertNonEmptyString(v) == v.t = "string" /\ v.chars # <<>>

SessionKeyTypeError == Err("TypeError", "The session key should be a string.")
SessionKeyGrammarError ==
  Err("TypeError", "The parameter session key does not match the expected format")
SessionKeyReadError == Err("Error", "The session key should be a valid openpgp session key.")

Returned(algorithm, data) ==
  [st |-> "returned", algorithm |-> algorithm, data |-> data, err |-> NoError]
Threw(err) == [st |-> "threw", algorithm |-> "", data |-> <<>>, err |-> err]

\* a reader whose grammar check does not anchor the end of the string
readSessionKeyOrFailUnanchored(sessionKey) ==
  IF ~assertNonEmptyString(sessionKey) THEN Threw(SessionKeyTypeError)
  ELSE IF ~SessionKeyRegexUnanchored(sessionKey.chars) THEN Threw(SessionKeyGrammarError)
  ELSE IF ~enumsReadKnows(SplitTag(sessionKey.chars)) THEN Threw(SessionKeyReadError)
  ELSE Returned(SymmetricByValue[SplitTag(sessionKey.chars)],
                fromHex(SubSeq(SplitPayload(sessionKey.chars), 1, HexLen)))

readSessionKeyOrFail(sessionKey) ==
  IF ~assertNonEmptyString(sessionKey) THEN Threw(SessionKeyTypeError)
  ELSE IF ~SessionKeyRegexTest(sessionKey.chars) THEN Threw(SessionKeyGrammarError)
  ELSE IF ~enumsReadKnows(SplitTag(sessionKey.chars)) THEN Threw(SessionKeyReadError)
  ELSE Returned(SymmetricByValue[SplitTag(sessionKey.chars)],
                fromHex(SplitPayload(sessionKey.chars)))

\* the session key strings tried: a tag, a separator or none, a payload
TagChars == {"0", "1", "9", "x"}
PayloadChars == {"A", "f", "7", "G"}
Tags == UNION {[1..n -> TagChars] : n \in 0..MaxTagLen}
Separators == {<<":">>, <<>>}
\* n times the character c, the last one replaced by d
Payload(n, c, d) == [i \in 1..n |-> IF i = n THEN d ELSE c]
Payloads ==
  {Payload(n, c, d) : n \in (HexLen - PayloadSlack)..(HexLen + PayloadSlack),
                      c \in PayloadChars, d \in PayloadChars}
SessionKeyInputs ==
  {Chars(tag \o sep \o payload) : tag \in Tags, sep \in Separators, payload \in Payloads}
    \cup {Chars(<<>>)} \cup NonStringInputs

(***************************************************************************)
(* readAllKeysOrFail: Promise.all(armoredKeys.map(key => readKeyOrFail(key)))*)
(***************************************************************************)
ElementInputs == {Str("ada.public"), Str("ada.private"), Str("not a key"), Number}
Arrays(S) == UNION {[1..n -> S] : n \in 0..MaxKeys}

\* a loop that reads the keys one after the other and stops at the first failure
mapReadKeyOrFailSequential(armoredKeys) ==
  [i \in 1..Len(armoredKeys) |->
     IF \E j \in 1..(i - 1) : armoredKeys[j].t # "string" \/ ~Parses(armoredKeys[j].s)
       THEN NotCalled
       ELSE readKeyOrFailCall(armoredKeys[i], <<>>)]

\* armoredKeys.map(key => readKeyOrFail(key)): the promise of every element,
\* each call having run up to its await
mapReadKeyOrFail(armoredKeys) ==
  [i \in 1..Len(armoredKeys) |-> readKeyOrFailCall(armoredKeys[i], <<>>)]

\* the indexes of the promises of ps in the state st, in increasing order
RECURSIVE IndexesIn(_, _, _)
IndexesIn(ps, st, i) ==
  IF i > Len(ps) THEN <<>>
  ELSE IF ps[i].st = st THEN <<i>> \o IndexesIn(ps, st, i + 1)
  ELSE IndexesIn(ps, st, i + 1)

AllOut(st, keys, err) == [st |-> st, keys |-> keys, err |-> err]

\* a Promise.all that collects the values in the order they arrive
promiseAllReactArrivalOrder(r, i) ==
  IF r.out.st # "pending" THEN r
  ELSE IF r.el[i].st = "rejected"
    THEN [r EXCEPT !.out = AllOut("rejected", <<>>, r.el[i].err)]
  ELSE IF r.remaining = 1
    THEN [r EXCEPT !.values = Append(SelectSeq(@, LAMBDA k : k # NoKey), r.el[i].key),
                   !.remaining = 0,
                   !.out = AllOut("fulfilled",
                                  Append(SelectSeq(r.values, LAMBDA k : k # NoKey),
                                         r.el[i].key), NoError)]
  ELSE [r EXCEPT !.values = Append(SelectSeq(@, LAMBDA k : k # NoKey), r.el[i].key),
                 !.remaining = @ - 1]

\* Promise.all's reaction to the settlement of its i-th promise
promiseAllReact(r, i) ==
  IF r.out.st # "pending" THEN r
  ELSE IF r.el[i].st = "rejected"
    THEN [r EXCEPT !.out = AllOut("rejected", <<>>, r.el[i].err)]
  ELSE IF r.remaining = 1
    THEN [r EXCEPT !.values[i] = r.el[i].key,
                   !.remaining = 0,
                   !.out = AllOut("fulfilled", [r.values EXCEPT ![i] = r.el[i].key],
                                  NoError)]
  ELSE [r EXCEPT !.values[i] = r.el[i].key, !.remaining = @ - 1]

\* readAllKeysOrFail(armoredKeys) up to the return of the promise of Promise.all
readAllKeysOrFailCall(isArray, armoredKeys) ==
  IF ~isArray
    THEN [op |-> "readAllKeysOrFail", isArray |-> FALSE, list |-> armoredKeys,
          el |-> <<>>, queue |-> <<>>, order |-> <<>>, values |-> <<>>,
          remaining |-> 0, out |-> AllOut("rejected", <<>>, KeysFormatError)]
    ELSE [op |-> "readAllKeysOrFail", isArray |-> TRUE, list |-> armoredKeys,
          el |-> mapReadKeyOrFail(armoredKeys),
          queue |-> IndexesIn(mapReadKeyOrFail(armoredKeys), "rejected", 1),
          order |-> <<>>,
          values |-> [i \in 1..Len(armoredKeys) |-> NoKey],
          remaining |-> Len(armoredKeys),
          out |-> IF Len(armoredKeys) = 0 THEN AllOut("fulfilled", <<>>, NoError)
                  ELSE AllOut("pending", <<>>, NoError)]

(***************************************************************************)
(* Batch assertions: the Array.isArray check, then the for loop.           *)
(***************************************************************************)
BatchKinds == {"assertKeys", "assertPublicKeys", "assertPrivateKeys",
               "assertDecryptedPrivateKeys", "assertEncryptedPrivateKeys"}

\* the single-object assertion a batch assertion applies
ElementAssertion(batch) ==
  CASE batch = "assertKeys" -> "assertKey"
    [] batch = "assertPublicKeys" -> "assertPublicKey"
    [] batch = "assertPrivateKeys" -> "assertPrivateKey"
    [] batch = "assertDecryptedPrivateKeys" -> "assertDecryptedPrivateKey"
    [] batch = "assertEncryptedPrivateKeys" -> "assertEncryptedPrivateKey"

\* the error of a batch assertion on something that is not an array
NotArrayError(batch) ==
  CASE batch = "assertKeys" -> Err("Error", "The keys should be an array.")
    [] batch = "assertPublicKeys" ->
         Err("Error", "The keys should be an array of valid openpgp public keys.")
    [] batch = "assertPrivateKeys" ->
         Err("Error", "The keys should be an array of valid openpgp private keys.")
    [] batch = "assertDecryptedPrivateKeys" ->
         Err("Error", "The keys should be an array of valid decrypted openpgp private keys.")
    [] batch = "assertEncryptedPrivateKeys" ->
         Err("Error", "The keys should be an array of valid encrypted openpgp private keys.")

BatchOut(st, err) == [st |-> st, err |-> err]

\* the batch assertion up to the loop
batchCall(batch, isArray, keys) ==
  [op |-> batch, isArray |-> isArray, keys |-> keys, i |-> 1, inspected |-> <<>>,
   out |-> IF isArray THEN BatchOut("running", NoError)
           ELSE BatchOut("threw", NotArrayError(batch))]

\* a loop that goes through the whole array and throws the last error found
batchIterationCollectErrors(b) ==
  IF b.i > Len(b.keys)
    THEN [b EXCEPT !.out = IF b.out.err = NoError THEN BatchOut("returned", NoError)
                            ELSE BatchOut("threw", b.out.err)]
  ELSE IF Assertion(ElementAssertion(b.op), b.keys[b.i]) # NoError
    THEN [b EXCEPT !.inspected = Append(@, b.i), !.i = @ + 1,
                   !.out = BatchOut("running",
                                    Assertion(ElementAssertion(b.op), b.keys[b.i]))]
  ELSE [b EXCEPT !.inspected = Append(@, b.i), !.i = @ + 1]

\* one evaluation of "i < keys.length" and, when it holds, of the loop's body
batchIteration(b) ==
  IF b.i > Len(b.keys)
    THEN [b EXCEPT !.out = BatchOut("returned", NoError)]
  ELSE IF Assertion(ElementAssertion(b.op), b.keys[b.i]) # NoError
    THEN [b EXCEPT !.inspected = Append(@, b.i),
                   !.out = BatchOut("threw",
                                    Assertion(ElementAssertion(b.op), b.keys[b.i]))]
  ELSE [b EXCEPT !.inspected = Append(@, b.i), !.i = @ + 1]

(***************************************************************************)
(* Messages: an object of some class with a list of packets.  A packet has *)
(* a tag and, under "encrypted", its encrypted payload or null.            *)
(***************************************************************************)
\* longest packet list of a message
MaxPackets == 3

Packet(tag, encrypted) == [tag |-> tag, encrypted |-> encrypted]
NoPacket == Packet("undefined", "undefined")
PacketKinds == {Packet("publicKeyEncryptedSessionKey", "object"),
                Packet("publicKeyEncryptedSessionKey", "null"),
                Packet("symEncryptedIntegrityProtectedData", "object")}
Msg(class, packets) == [class |-> class, packets |-> packets]
MessageClasses == {"Message", "CleartextMessage", "Object"}
MessageInputs ==
  {Msg(class, packets) : class \in MessageClasses,
                         packets \in UNION {[1..n -> PacketKinds] : n \in 0..MaxPackets}}

MessageError == Err("Error", "The message should be a valid openpgp message.")
NoSessionKeyError == Err("Error", "The message should contain at least one session key.")
MessageNotDecryptedError == Err("Error", "The message should be decrypted.")

\* message.packets.findPacket(tag): the first packet of the tag, or undefined
RECURSIVE findPacket(_, _)
findPacket(packets, tag) ==
  IF packets = <<>> THEN NoPacket
  ELSE IF Head(packets).tag = tag THEN Head(packets)
  ELSE findPacket(Tail(packets), tag)

assertMessage(message) ==
  IF message.class # "Message" THEN MessageError ELSE NoError

Checked(err, calls) == [err |-> err, calls |-> calls]

\* an assertion that wants every session key packet of the message decrypted
assertDecryptedMessageEveryPacket(message) ==
  IF assertMessage(message) # NoError THEN Checked(assertMessage(message), <<>>)
  ELSE IF findPacket(message.packets, "publicKeyEncryptedSessionKey") = NoPacket
    THEN Checked(NoSessionKeyError, <<"findPacket">>)
  ELSE IF \E i \in 1..Len(message.packets) :
            /\ message.packets[i].tag = "publicKeyEncryptedSessionKey"
            /\ message.packets[i].encrypted # "null"
    THEN Checked(MessageNotDecryptedError, <<"findPacket">>)
  ELSE Checked(NoError, <<"findPacket">>)

assertDecryptedMessage(message) ==
  IF assertMessage(message) # NoError THEN Checked(assertMessage(message), <<>>)
  ELSE IF findPacket(message.packets, "publicKeyEncryptedSessionKey") = NoPacket
    THEN Checked(NoSessionKeyError, <<"findPacket">>)
  ELSE IF findPacket(message.packets, "publicKeyEncryptedSessionKey").encrypted # "null"
    THEN Checked(MessageNotDecryptedError, <<"findPacket">>)
  ELSE Checked(NoError, <<"findPacket">>)

(***************************************************************************)
(* The message factories: async functions, run up to their call of the     *)
(* library and resumed when its promise settles.                           *)
(***************************************************************************)
ArrayValue == [t |-> "object", s |-> "[]"]
MessageTexts == {"message.armored", "cleartext.armored", "not a message"}
FactoryInputs ==
  NonStrings \cup {ArrayValue} \cup {Str(s) : s \in MessageTexts \cup {"ada.public"}}

MessageTypeError == Err("Error", "The message should be of type string.")

\* a factory that hands whatever it is given to openpgp.createMessage
createMessageOrFailNoTypeCheck(message) ==
  Pending(<<"createMessageOrFail", "openpgp.createMessage">>)

createMessageOrFailCall(message) ==
  IF message.t # "string"
    THEN Rejected(MessageTypeError, <<"createMessageOrFail">>)
    ELSE Pending(<<"createMessageOrFail", "openpgp.createMessage">>)

\* openpgp.createMessage makes the text the payload of a new message
createMessageOrFailResume(message, calls) ==
  Fulfilled(Key("Message", message.s, FALSE, 1), calls)

createCleartextMessageOrFailCall(text) ==
  IF text.t # "string"
    THEN Rejected(MessageTypeError, <<"createCleartextMessageOrFail">>)
    ELSE Pending(<<"createCleartextMessageOrFail", "openpgp.createCleartextMessage">>)

createCleartextMessageOrFailResume(text, calls) ==
  Fulfilled(Key("CleartextMessage", text.s, FALSE, 1), calls)

readMessageOrFailCall(message) ==
  IF message.t # "string"
    THEN Rejected(MessageTypeError, <<"readMessageOrFail">>)
    ELSE Pending(<<"readMessageOrFail", "openpgp.readMessage">>)

\* the message read, or the normalised error of the catch
readMessageOrFailResume(message, calls) ==
  IF message.s = "message.armored"
    THEN Fulfilled(Key("Message", message.s, FALSE, 1), calls)
    ELSE Rejected(MessageError, calls)

readClearMessageOrFailCall(cleartextMessage) ==
  IF cleartextMessage.t # "string"
    THEN Rejected(MessageTypeError, <<"readClearMessageOrFail">>)
    ELSE Pending(<<"readClearMessageOrFail", "openpgp.readCleartextMessage">>)

readClearMessageOrFailResume(cleartextMessage, calls) ==
  IF cleartextMessage.s = "cleartext.armored"
    THEN Fulfilled(Key("CleartextMessage", cleartextMessage.s, FALSE, 1), calls)
    ELSE Rejected(MessageError, calls)

Factories == {"readKeyOrFail", "createMessageOrFail", "createCleartextMessageOrFail",
              "readMessageOrFail", "readClearMessageOrFail"}

\* OpenpgpAssertion[factory](input), up to the await or the return of the
\* library's promise
FactoryCall(factory, input) ==
  CASE factory = "readKeyOrFail" -> readKeyOrFailCall(input, <<>>)
    [] factory = "createMessageOrFail" -> createMessageOrFailCall(input)
    [] factory = "createCleartextMessageOrFail" -> createCleartextMessageOrFailCall(input)
    [] factory = "readMessageOrFail" -> readMessageOrFailCall(input)
    [] factory = "readClearMessageOrFail" -> readClearMessageOrFailCall(input)

\* the same call once the library's promise has settled
FactoryResume(factory, input, calls) ==
  CASE factory = "readKeyOrFail" -> readKeyOrFailResume(input, 1, calls)
    [] factory = "createMessageOrFail" -> createMessageOrFailResume(input, calls)
    [] factory = "createCleartextMessageOrFail" ->
         createCleartextMessageOrFailResume(input, calls)
    [] factory = "readMessageOrFail" -> readMessageOrFailResume(input, calls)
    [] factory = "readClearMessageOrFail" -> readClearMessageOrFailResume(input, calls)

(***************************************************************************)
(* assertSessionKey.  A candidate is a value with the tag that             *)
(* Object.prototype.toString gives it, the kind and content of its data    *)
(* field and its algorithm field.                                          *)
(***************************************************************************)
Candidate(toStringTag, dataKind, data, algorithm) ==
  [toStringTag |-> toStringTag, dataKind |-> dataKind, data |-> data,
   algorithm |-> algorithm]
Bytes(n) == [i \in 1..n |-> 0]
ByteLengths == {0, 16, 32, 33}
Algorithms == {"aes256", "aes128", "undefined"}
SessionKeyCandidates ==
  {Candidate("Object", kind, Bytes(n), algorithm) :
     kind \in {"Uint8Array", "Array"}, n \in ByteLengths, algorithm \in Algorithms}
    \cup {Candidate("Object", "undefined", <<>>, algorithm) : algorithm \in Algorithms}
    \cup {Candidate(t, "undefined", <<>>, "undefined") :
            t \in {"Null", "Undefined", "Array", "String"}}

\* the object readSessionKeyOrFail returns: { data, algorithm }, data being
\* the Uint8Array of Uint8ArrayConvert.fromHex
SessionKeyObject(out) == Candidate("Object", "Uint8Array", out.data, out.algorithm)

SessionKeysObjectError == Err("Error", "The session keys should be an object.")
SessionKeysAes256Error ==
  Err("Error", "The session keys should be a valid openpgp session key aes256.")

\* an assertion that takes any algorithm
assertSessionKeyAnyAlgorithm(sessionKey) ==
  IF ~(sessionKey.toStringTag = "Object") THEN SessionKeysObjectError
  ELSE IF ~(sessionKey.dataKind = "Uint8Array") THEN SessionKeysAes256Error
  ELSE NoError

\* an assertion that joins its two checks with "and" where the code has "or"
assertSessionKeyBothWrong(sessionKey) ==
  IF ~(sessionKey.toStringTag = "Object") THEN SessionKeysObjectError
  ELSE IF ~(sessionKey.dataKind = "Uint8Array") /\ sessionKey.algorithm # "aes256"
    THEN SessionKeysAes256Error
  ELSE NoError

assertSessionKey(sessionKey) ==
  IF ~(sessionKey.toStringTag = "Object") THEN SessionKeysObjectError
  ELSE IF ~(sessionKey.dataKind = "Uint8Array") \/ sessionKey.algorithm # "aes256"
    THEN SessionKeysAes256Error
  ELSE NoError

(***************************************************************************)
(* The driver's records.                                                   *)
(***************************************************************************)
SvcIdle == [op |-> "none", key |-> NoKey, text |-> Undefined,
            passphrase |-> Undefined, out |-> NotCalled]
AsrIdle == [op |-> "none", key |-> NoKey, err |-> [kind \in AssertionKinds |-> NoError]]
SkIdle == [op |-> "none", input |-> Chars(<<>>), out |-> Threw(NoError)]
RaIdle == [op |-> "none", isArray |-> FALSE, list |-> <<>>, el |-> <<>>,
           queue |-> <<>>, order |-> <<>>, values |-> <<>>, remaining |-> 0,
           out |-> AllOut("none", <<>>, NoError)]
BaIdle == [op |-> "none", isArray |-> FALSE, keys |-> <<>>, i |-> 1,
           inspected |-> <<>>, out |-> BatchOut("none", NoError)]

MsgIdle == [op |-> "none", message |-> Msg("none", <<>>), out |-> Checked(NoError, <<>>)]
FacIdle == [op |-> "none", input |-> Undefined, out |-> NotCalled]
SkaIdle == [op |-> "none", sessionKey |-> Candidate("Undefined", "undefined", <<>>, "undefined"),
            err |-> NoError]

Init ==
  /\ pc = "idle"
  /\ svc = SvcIdle
  /\ asr = AsrIdle
  /\ sk = SkIdle
  /\ ra = RaIdle
  /\ ba = BaIdle
  /\ msg = MsgIdle
  /\ fac = FacIdle
  /\ ska = SkaIdle

\* DecryptPrivateKeyService.decrypt(privateKey, passphrase), any argument
CallDecrypt ==
  /\ pc = "idle"
  /\ \E key \in Objects, passphrase \in Passphrases :
       svc' = [op |-> "decrypt", key |-> key, text |-> Undefined,
               passphrase |-> passphrase, out |-> decrypt(key, passphrase, <<>>)]
  /\ pc' = "done"
  /\ UNCHANGED <<asr, sk, ra, ba, msg, fac, ska>>

\* DecryptPrivateKeyService.decryptArmoredKey(armoredPrivateKey, passphrase), up
\* to its await
CallDecryptArmoredKey ==
  /\ pc = "idle"
  /\ \E text \in ArmoredInputs, passphrase \in Passphrases :
       /\ svc' = [op |-> "decryptArmoredKey", key |-> NoKey, text |-> text,
                  passphrase |-> passphrase,
                  out |-> decryptArmoredKeyCall(text, passphrase)]
       /\ pc' = IF decryptArmoredKeyCall(text, passphrase).st = "pending"
                  THEN "decryptArmoredKey" ELSE "done"
  /\ UNCHANGED <<asr, sk, ra, ba, msg, fac, ska>>

\* the parser's promise settles and decryptArmoredKey runs to its end
ResumeDecryptArmoredKey ==
  /\ pc = "decryptArmoredKey"
  /\ svc' = [svc EXCEPT !.out = decryptArmoredKeyResume(svc.text, svc.passphrase,
                                                        svc.out.calls)]
  /\ pc' = "done"
  /\ UNCHANGED <<asr, sk, ra, ba, msg, fac, ska>>

\* each of the single-object assertions, applied to one object
CallAssertion ==
  /\ pc = "idle"
  /\ \E key \in Objects :
       asr' = [op |-> "assert", key |-> key,
               err |-> [kind \in AssertionKinds |-> Assertion(kind, key)]]
  /\ pc' = "done"
  /\ UNCHANGED <<svc, sk, ra, ba, msg, fac, ska>>

\* readSessionKeyOrFail(sessionKey)
CallReadSessionKey ==
  /\ pc = "idle"
  /\ \E input \in SessionKeyInputs :
       sk' = [op |-> "readSessionKeyOrFail", input |-> input,
              out |-> readSessionKeyOrFail(input)]
  /\ pc' = "done"
  /\ UNCHANGED <<svc, asr, ra, ba, msg, fac, ska>>

\* readAllKeysOrFail(armoredKeys) with an array or with something else
CallReadAllKeysOrFail ==
  /\ pc = "idle"
  /\ \/ \E list \in Arrays(ElementInputs) : ra' = readAllKeysOrFailCall(TRUE, list)
     \/ ra' = readAllKeysOrFailCall(FALSE, <<>>)
  /\ pc' = "readAllKeysOrFail"
  /\ UNCHANGED <<svc, asr, sk, ba, msg, fac, ska>>

\* the parser settles the promise of one element, in any order, and the
\* readKeyOrFail of that element resumes
ParserSettles ==
  /\ pc = "readAllKeysOrFail"
  /\ \E i \in 1..Len(ra.el) :
       /\ ra.el[i].st = "pending"
       /\ ra' = [ra EXCEPT !.el[i] = readKeyOrFailResume(ra.list[i], i, ra.el[i].calls),
                           !.queue = Append(@, i),
                           !.order = Append(@, i)]
  /\ UNCHANGED <<pc, svc, asr, sk, ba, msg, fac, ska>>

\* Promise.all reacts to the settlements in the order they happened
PromiseAllReacts ==
  /\ pc = "readAllKeysOrFail"
  /\ ra.queue # <<>>
  /\ ra' = [promiseAllReact(ra, Head(ra.queue)) EXCEPT !.queue = Tail(ra.queue)]
  /\ UNCHANGED <<pc, svc, asr, sk, ba, msg, fac, ska>>

\* nothing of the call is left to run
ReadAllKeysOrFailEnds ==
  /\ pc = "readAllKeysOrFail"
  /\ ra.queue = <<>>
  /\ \A i \in 1..Len(ra.el) : ra.el[i].st # "pending"
  /\ pc' = "done"
  /\ UNCHANGED <<svc, asr, sk, ra, ba, msg, fac, ska>>

\* a batch assertion on an array of objects or on something else
CallBatchAssertion ==
  /\ pc = "idle"
  /\ \E batch \in BatchKinds :
       \/ \E keys \in Arrays(Objects) : ba' = batchCall(batch, TRUE, keys)
       \/ ba' = batchCall(batch, FALSE, <<>>)
  /\ pc' = "batch"
  /\ UNCHANGED <<svc, asr, sk, ra, msg, fac, ska>>

\* one iteration of the loop of the batch assertion
BatchIterates ==
  /\ pc = "batch"
  /\ ba.out.st = "running"
  /\ ba' = batchIteration(ba)
  /\ UNCHANGED <<pc, svc, asr, sk, ra, msg, fac, ska>>

\* the batch assertion has returned or thrown
BatchEnds ==
  /\ pc = "batch"
  /\ ba.out.st # "running"
  /\ pc' = "done"
  /\ UNCHANGED <<svc, asr, sk, ra, ba, msg, fac, ska>>

\* assertDecryptedMessage(message)
CallAssertDecryptedMessage ==
  /\ pc = "idle"
  /\ \E message \in MessageInputs :
       msg' = [op |-> "assertDecryptedMessage", message |-> message,
               out |-> assertDecryptedMessage(message)]
  /\ pc' = "done"
  /\ UNCHANGED <<svc, asr, sk, ra, ba, fac, ska>>

\* one of the factories on a value, up to its call of the library
CallFactory ==
  /\ pc = "idle"
  /\ \E factory \in Factories, input \in FactoryInputs :
       /\ fac' = [op |-> factory, input |-> input, out |-> FactoryCall(factory, input)]
       /\ pc' = IF FactoryCall(factory, input).st = "pending" THEN "factory" ELSE "done"
  /\ UNCHANGED <<svc, asr, sk, ra, ba, msg, ska>>

\* the library's promise settles and the factory runs to its end
FactorySettles ==
  /\ pc = "factory"
  /\ fac' = [fac EXCEPT !.out = FactoryResume(fac.op, fac.input, fac.out.calls)]
  /\ pc' = "done"
  /\ UNCHANGED <<svc, asr, sk, ra, ba, msg, ska>>

\* assertSessionKey(sessionKey) on any value
CallAssertSessionKey ==
  /\ pc = "idle"
  /\ \E sessionKey \in SessionKeyCandidates :
       ska' = [op |-> "assertSessionKey", sessionKey |-> sessionKey,
               err |-> assertSessionKey(sessionKey)]
  /\ pc' = "done"
  /\ UNCHANGED <<svc, asr, sk, ra, ba, msg, fac>>

\* assertSessionKey on the session key readSessionKeyOrFail has just returned
AssertReturnedSessionKey ==
  /\ pc = "done"
  /\ sk.op = "readSessionKeyOrFail"
  /\ sk.out.st = "returned"
  /\ ska.op = "none"
  /\ ska' = [op |-> "assertSessionKey", sessionKey |-> SessionKeyObject(sk.out),
             err |-> assertSessionKey(SessionKeyObject(sk.out))]
  /\ UNCHANGED <<pc, svc, asr, sk, ra, ba, msg, fac>>

\* the driver forgets the call and is ready for the next one
Return ==
  /\ pc = "done"
  /\ pc' = "idle"
  /\ svc' = SvcIdle
  /\ asr' = AsrIdle
  /\ sk' = SkIdle
  /\ ra' = RaIdle
  /\ ba' = BaIdle
  /\ msg' = MsgIdle
  /\ fac' = FacIdle
  /\ ska' = SkaIdle

Next ==
  \/ CallDecrypt
  \/ CallDecryptArmoredKey
  \/ ResumeDecryptArmoredKey
  \/ CallAssertion
  \/ CallReadSessionKey
  \/ CallReadAllKeysOrFail
  \/ ParserSettles
  \/ PromiseAllReacts
  \/ ReadAllKeysOrFailEnds
  \/ CallBatchAssertion
  \/ BatchIterates
  \/ BatchEnds
  \/ CallAssertDecryptedMessage
  \/ CallFactory
  \/ FactorySettles
  \/ CallAssertSessionKey
  \/ AssertReturnedSessionKey
  \/ Return

Spec == Init /\ [][Next]_vars

(***************************************************************************)
(* Properties.                                                             *)
(***************************************************************************)
Range(f) == {f[i] : i \in DOMAIN f}
NonEmptyString(v) == v.t = "string" /\ v.s # ""
EncryptedPrivate(key) == key.class = "PrivateKey" /\ ~key.decrypted

C2_WrongPassphraseRejected ==
  (/\ svc.op = "decrypt"
   /\ EncryptedPrivate(svc.key)
   /\ NonEmptyString(svc.passphrase)
   /\ ~Unlocks(svc.key, svc.passphrase)) =>
    /\ svc.out.st = "rejected"
    /\ svc.out.err.name = "InvalidMasterPasswordError"
    /\ svc.out.key = NoKey

\* C3: whenever decrypt or decryptArmoredKey completes successfully, the key
\* returned is a private key in the decrypted state (assertDecryptedPrivateKey
\* accepts it).
C3_ReturnsDecryptedPrivateKey ==
  (svc.op \in {"decrypt", "decryptArmoredKey"} /\ svc.out.st = "fulfilled") =>
    assertDecryptedPrivateKey(svc.out.key) = NoError

\* C4: decrypt with a passphrase that is missing, empty or not a string fails
\* with the passphrase error and returns no key, whatever the key argument is
\* (an already decrypted private key included).
C4_BadPassphraseAlwaysFails ==
  (svc.op = "decrypt" /\ ~NonEmptyString(svc.passphrase)) =>
    /\ svc.out.st = "rejected"
    /\ svc.out.err = PassphraseError
    /\ svc.out.key = NoKey

C4_Witness ==
  /\ svc.op = "decrypt"
  /\ svc.key = ParsedKey("ada.private_decrypted", 1)
  /\ svc.passphrase = Str("")
  /\ svc.out.st = "rejected"
  /\ svc.out.err = PassphraseError

\* C5: decryptArmoredKey with a text that is not a string or does not parse
\* as a key fails with the error of readKeyOrFail and never examines the
\* passphrase, so the outcome is the same for every passphrase.
C5_MalformedKeyFailsBeforePassphrase ==
  (/\ svc.op = "decryptArmoredKey"
   /\ (svc.text.t # "string" \/ ~Parses(svc.text.s))) =>
    /\ "assertPassphrase" \notin Range(svc.out.calls)
    /\ svc.out.st \in {"pending", "rejected"}
    /\ svc.out.key = NoKey
    /\ pc = "done" => (svc.out.st = "rejected" /\ svc.out.err = KeyFormatError)

C5_Witness ==
  /\ pc = "done"
  /\ svc.op = "decryptArmoredKey"
  /\ svc.text = Str("not a key")
  /\ svc.passphrase = Str("")
  /\ svc.out.st = "rejected"
  /\ svc.out.err = KeyFormatError

\* C6: for every object assertKey accepts, exactly one of assertPublicKey and
\* assertPrivateKey succeeds: assertPublicKey iff the role is not private,
\* assertPrivateKey iff it is; a private key, also an instance of the public
\* key class, is rejected by assertPublicKey.
C6_PublicPrivateExclusive ==
  (asr.op = "assert" /\ asr.err["assertKey"] = NoError) =>
    /\ (asr.err["assertPublicKey"] = NoError) # (asr.err["assertPrivateKey"] = NoError)
    /\ (asr.err["assertPublicKey"] = NoError) <=> (asr.key.class # "PrivateKey")
    /\ (asr.err["assertPrivateKey"] = NoError) <=> (asr.key.class = "PrivateKey")

C6_Witness ==
  /\ asr.op = "assert"
  /\ asr.key.class = "PrivateKey"
  /\ InstanceOfPublicKey(asr.key)
  /\ asr.err["assertKey"] = NoError
  /\ asr.err["assertPublicKey"] = PublicKeyError
  /\ asr.err["assertPrivateKey"] = NoError

\* the element of a list that readKeyOrFail rejects
Unreadable(v) == v.t # "string" \/ ~Parses(v.s)

\* C7 (as claimed): readAllKeysOrFail short-circuits on the first failure: no
\* element after the first one readKeyOrFail rejects is handed to
\* readKeyOrFail or to the parser.
C7_ShortCircuitsOnFirstFailure ==
  (ra.op = "readAllKeysOrFail" /\ ra.isArray) =>
    \A i, j \in 1..Len(ra.list) :
      (i < j /\ Unreadable(ra.list[i])) => ra.el[j].calls = <<>>

\* C7 (amended): readAllKeysOrFail hands every element of the array to
\* readKeyOrFail, and every string element to the parser, when it is called,
\* the elements after a failing one included; only its result is settled by
\* the first rejection Promise.all sees.
C7_EveryElementIsRead ==
  (ra.op = "readAllKeysOrFail" /\ ra.isArray) =>
    /\ Len(ra.el) = Len(ra.list)
    /\ \A j \in 1..Len(ra.list) :
         /\ "readKeyOrFail" \in Range(ra.el[j].calls)
         /\ ("openpgp.readKey" \in Range(ra.el[j].calls)) <=> (ra.list[j].t = "string")
    /\ ra.out.st = "rejected" => \E i \in 1..Len(ra.list) : ra.el[i].st = "rejected"

C7_Witness ==
  /\ ra.op = "readAllKeysOrFail"
  /\ Len(ra.list) = 2
  /\ ra.list[1].t # "string"
  /\ ra.out.st = "rejected"
  /\ ra.el[2].calls = <<"readKeyOrFail", "openpgp.readKey">>
  /\ ra.el[2].st = "pending"

\* C8: readAllKeysOrFail is all-or-nothing.  It fails with the format error,
\* returning no key, when its argument is not an array or when one element is
\* not a parseable armored key string; when it succeeds it returns one key per
\* element, in the order of the elements, whatever order the parses complete in.
C8_AllOrNothingInOrder ==
  (ra.op = "readAllKeysOrFail") =>
    /\ ra.out.st = "rejected" =>
         /\ ra.out.keys = <<>>
         /\ \/ ~ra.isArray /\ ra.out.err = KeysFormatError
            \/ /\ ra.isArray
               /\ \E i \in 1..Len(ra.list) : Unreadable(ra.list[i])
               /\ ra.out.err = KeyFormatError
    /\ ra.out.st = "fulfilled" =>
         /\ ra.isArray
         /\ Len(ra.out.keys) = Len(ra.list)
         /\ \A i \in 1..Len(ra.list) :
              /\ ~Unreadable(ra.list[i])
              /\ ra.out.keys[i].fixture = ra.list[i].s
              /\ ra.out.keys[i].oid = i
    /\ pc = "done" =>
         /\ ra.out.st \in {"rejected", "fulfilled"}
         /\ ra.out.st = "rejected" <=>
              (~ra.isArray \/ \E i \in 1..Len(ra.list) : Unreadable(ra.list[i]))

C8_Witness ==
  /\ ra.op = "readAllKeysOrFail"
  /\ ra.out.st = "fulfilled"
  /\ ra.list = <<Str("ada.public"), Str("ada.private")>>
  /\ ra.order = <<2, 1>>
  /\ ra.out.keys[1].fixture = "ada.public"
  /\ ra.out.keys[2].fixture = "ada.private"

\* the error of the single-object assertion of the batch on the j-th element
ElementError(b, j) == Assertion(ElementAssertion(b.op), b.keys[j])

\* C9: a batch assertion on an array checks the elements in increasing index
\* order and stops at the first violating one: it fails with the error of the
\* single-object assertion on that element, inspects no element after it, and
\* succeeds iff the single-object assertion accepts every element.
C9_BatchFailsFast ==
  (ba.op \in BatchKinds /\ ba.isArray) =>
    /\ ba.inspected = [j \in 1..Len(ba.inspected) |-> j]
    /\ Len(ba.inspected) <= Len(ba.keys)
    /\ \A j \in 1..(Len(ba.inspected) - 1) : ElementError(ba, j) = NoError
    /\ ba.out.st = "threw" =>
         /\ ba.inspected # <<>>
         /\ ElementError(ba, Len(ba.inspected)) # NoError
         /\ ba.out.err = ElementError(ba, Len(ba.inspected))
    /\ ba.out.st = "returned" =>
         /\ Len(ba.inspected) = Len(ba.keys)
         /\ \A j \in 1..Len(ba.keys) : ElementError(ba, j) = NoError
    /\ pc = "done" =>
         /\ ba.out.st \in {"threw", "returned"}
         /\ ba.out.st = "returned" <=>
              \A j \in 1..Len(ba.keys) : ElementError(ba, j) = NoError

C9_Witness ==
  /\ pc = "done"
  /\ ba.op = "assertDecryptedPrivateKeys"
  /\ Len(ba.keys) = 3
  /\ ElementError(ba, 1) = NoError
  /\ ElementError(ba, 2) = NotDecryptedError
  /\ ElementError(ba, 3) = PrivateKeyError
  /\ ba.out = BatchOut("threw", NotDecryptedError)
  /\ ba.inspected = <<1, 2>>

\* the grammar <1-2 digits>:<64 hexadecimal characters>, of the whole string
InGrammar(v) ==
  /\ v.t = "string"
  /\ \E n \in 1..2 :
       /\ Len(v.chars) = n + 1 + 64
       /\ \A i \in 1..n : v.chars[i] \in Digits
       /\ v.chars[n + 1] = ":"
       /\ \A i \in (n + 2)..(n + 1 + 64) : v.chars[i] \in HexChars

\* the algorithm tag of a string of the grammar
TagOf(v) == IF v.chars[2] = ":" THEN SubSeq(v.chars, 1, 1) ELSE SubSeq(v.chars, 1, 2)

\* C10 (as claimed): readSessionKeyOrFail accepts exactly the strings of the
\* grammar: each yields a session key, every other input is rejected.
C10_AcceptsExactlyTheGrammar ==
  (sk.op = "readSessionKeyOrFail") =>
    (sk.out.st = "returned" <=> InGrammar(sk.input))

\* C10 (amended): readSessionKeyOrFail rejects every input outside the grammar
\* (63 or 65 payload characters, a character that is not hexadecimal, no colon,
\* the empty string, a value that is not a string); a string of the grammar
\* yields a session key, the algorithm of its tag and 32 bytes of data, iff
\* openpgp.enums.read knows its algorithm tag, and fails with the wrapped
\* session key error otherwise.
C10_AcceptsGrammarWithKnownTag ==
  (sk.op = "readSessionKeyOrFail") =>
    /\ sk.out.st = "returned" <=>
         (InGrammar(sk.input) /\ enumsReadKnows(TagOf(sk.input)))
    /\ sk.out.st = "returned" =>
         /\ sk.out.algorithm = SymmetricByValue[TagOf(sk.input)]
         /\ Len(sk.out.data) = 32
         /\ \A i \in 1..32 : sk.out.data[i] \in 0..255
    /\ (InGrammar(sk.input) /\ ~enumsReadKnows(TagOf(sk.input))) =>
         sk.out.err = SessionKeyReadError
    /\ ~InGrammar(sk.input) =>
         sk.out.err \in {SessionKeyTypeError, SessionKeyGrammarError}

C10_Witness ==
  /\ sk.op = "readSessionKeyOrFail"
  /\ InGrammar(sk.input)
  /\ TagOf(sk.input) = <<"9">>
  /\ sk.input.chars[3] = "f"
  /\ sk.out.st = "returned"
  /\ sk.out.algorithm = "aes256"
  /\ Len(sk.out.data) = 32
  /\ sk.out.data[1] = 255

\* the session key packets of a message, by index
SessionKeyPackets(m) ==
  {i \in 1..Len(m.packets) : m.packets[i].tag = "publicKeyEncryptedSessionKey"}
FirstOf(S) == CHOOSE i \in S : \A j \in S : i <= j

\* C11: assertDecryptedMessage succeeds iff the object is a message that holds
\* at least one session key packet and the first one's encrypted payload is
\* cleared.  It fails with the message error for an object that is no message,
\* before any packet is looked at, with the missing session key error when
\* there is no such packet, and with the not decrypted error when the first
\* one is still encrypted; the later packets do not influence the outcome.
C11_FirstSessionKeyPacketDecides ==
  (msg.op = "assertDecryptedMessage") =>
    LET m == msg.message
        pk == SessionKeyPackets(m)
    IN /\ msg.out.err = NoError <=>
            (/\ m.class = "Message"
             /\ pk # {}
             /\ m.packets[FirstOf(pk)].encrypted = "null")
       /\ m.class # "Message" =>
            (msg.out.err = MessageError /\ msg.out.calls = <<>>)
       /\ (m.class = "Message" /\ pk = {}) => msg.out.err = NoSessionKeyError
       /\ (m.class = "Message" /\ pk # {} /\ m.packets[FirstOf(pk)].encrypted # "null") =>
            msg.out.err = MessageNotDecryptedError

C11_Witness ==
  /\ msg.op = "assertDecryptedMessage"
  /\ msg.message.class = "Message"
  /\ msg.message.packets = <<Packet("symEncryptedIntegrityProtectedData", "object"),
                             Packet("publicKeyEncryptedSessionKey", "null"),
                             Packet("publicKeyEncryptedSessionKey", "object")>>
  /\ msg.out.err = NoError

\* the error a factory throws on a value that is not a string
TypeErrorOf(factory) ==
  IF factory = "readKeyOrFail" THEN KeyFormatError ELSE MessageTypeError

\* C12: on an input that is not a string (undefined, null, a number, an
\* object, an array) readKeyOrFail, readSessionKeyOrFail, createMessageOrFail,
\* createCleartextMessageOrFail, readMessageOrFail and readClearMessageOrFail
\* fail with their format error without calling the library's parser or
\* constructor; readAllKeysOrFail fails with its format error on an input that
\* is not an array and on an array that holds an element that is not a string.
C12_NonStringsAreRejected ==
  /\ (fac.op \in Factories /\ fac.input.t # "string") =>
       /\ fac.out.st = "rejected"
       /\ fac.out.err = TypeErrorOf(fac.op)
       /\ fac.out.calls = <<fac.op>>
  /\ (sk.op = "readSessionKeyOrFail" /\ sk.input.t # "string") =>
       /\ sk.out.st = "threw"
       /\ sk.out.err = SessionKeyTypeError
  /\ (ra.op = "readAllKeysOrFail" /\ ~ra.isArray) =>
       /\ ra.out.st = "rejected"
       /\ ra.out.err = KeysFormatError
       /\ ra.el = <<>>
  /\ (/\ ra.op = "readAllKeysOrFail"
      /\ ra.isArray
      /\ \E i \in 1..Len(ra.list) : ra.list[i].t # "string") =>
       /\ ra.out.st \in {"pending", "rejected"}
       /\ ra.out.st = "rejected" => ra.out.err = KeyFormatError
       /\ pc = "done" => ra.out.st = "rejected"
       /\ \A i \in 1..Len(ra.list) :
            ra.list[i].t # "string" => "openpgp.readKey" \notin Range(ra.el[i].calls)

C12_Witness ==
  /\ fac.op = "createMessageOrFail"
  /\ fac.input = Null
  /\ fac.out.st = "rejected"
  /\ fac.out.err = MessageTypeError
  /\ fac.out.calls = <<"createMessageOrFail">>

\* C13 (as claimed): assertSessionKey succeeds exactly when its argument is a
\* plain object whose data is a byte sequence of 32 bytes and whose algorithm
\* is "aes256"; a byte sequence of another length is rejected.
C13_AcceptsOnly32ByteAes256 ==
  (ska.op = "assertSessionKey" /\ sk.op = "none") =>
    (ska.err = NoError <=>
       /\ ska.sessionKey.toStringTag = "Object"
       /\ ska.sessionKey.dataKind = "Uint8Array"
       /\ Len(ska.sessionKey.data) = 32
       /\ ska.sessionKey.algorithm = "aes256")

\* C13 (amended): assertSessionKey succeeds exactly when its argument is a
\* plain object whose data field is a Uint8Array, of any length, and whose
\* algorithm field equals "aes256".  It rejects the same structure with another
\* algorithm or with data given as a plain array, with the aes256 error, and a
\* value that is not a plain object, with the object error; it does not check
\* the length of the data.
C13_AcceptsUint8ArrayAes256 ==
  (ska.op = "assertSessionKey" /\ sk.op = "none") =>
    /\ ska.err = NoError <=>
         /\ ska.sessionKey.toStringTag = "Object"
         /\ ska.sessionKey.dataKind = "Uint8Array"
         /\ ska.sessionKey.algorithm = "aes256"
    /\ ska.sessionKey.toStringTag # "Object" => ska.err = SessionKeysObjectError
    /\ (ska.sessionKey.toStringTag = "Object" /\ ska.err # NoError) =>
         ska.err = SessionKeysAes256Error

C13_Witness ==
  /\ ska.op = "assertSessionKey"
  /\ sk.op = "none"
  /\ ska.sessionKey = Candidate("Object", "Uint8Array", Bytes(32), "aes256")
  /\ ska.err = NoError

\* C14 (as claimed): every session key readSessionKeyOrFail returns is
\* accepted by assertSessionKey.
C14_ReturnedSessionKeyIsAccepted ==
  (sk.op = "readSessionKeyOrFail" /\ ska.op = "assertSessionKey") =>
    ska.err = NoError

\* C14 (amended): a session key readSessionKeyOrFail returns is a plain object
\* with 32 bytes of Uint8Array data, and assertSessionKey accepts it iff the
\* algorithm tag of the string is 9 (aes256); a string whose tag names another
\* cipher (7, aes128, for instance) is read and its session key is rejected by
\* assertSessionKey with the aes256 error.
C14_ReturnedSessionKeyAcceptedIffAes256 ==
  (sk.op = "readSessionKeyOrFail" /\ ska.op = "assertSessionKey") =>
    /\ sk.out.st = "returned"
    /\ ska.sessionKey.toStringTag = "Object"
    /\ ska.sessionKey.dataKind = "Uint8Array"
    /\ ska.sessionKey.data = sk.out.data
    /\ Len(ska.sessionKey.data) = 32
    /\ ska.err = NoError <=> TagOf(sk.input) = <<"9">>
    /\ ska.err # NoError =>
         (ska.err = SessionKeysAes256Error /\ sk.out.algorithm # "aes256")

C14_Witness ==
  /\ sk.op = "readSessionKeyOrFail"
  /\ sk.out.st = "returned"
  /\ TagOf(sk.input) = <<"9">>
  /\ ska.op = "assertSessionKey"
  /\ ska.sessionKey.algorithm = "aes256"
  /\ ska.err = NoError
====
